---- MODULE Spec2Model ----
(***************************************************************************)
(* The voice command pipeline of CodeJanitor: the coordinator VoiceService *)
(* (my-app/src/services/voiceService.ts) over the three engines WhisperSTT,*)
(* PiperTTS and VoiceActivityDetector (src/mocks/runanywhere-voice.ts).    *)
(*                                                                         *)
(* JavaScript runs one synchronous segment at a time.  An action of this   *)
(* module is one such segment: the synchronous start of a public call (up  *)
(* to its first await), the resumption of a suspended call from the        *)
(* microtask queue mq (up to its next await), or one timer callback.  A    *)
(* timer callback runs only when the microtask queue is empty.  Time is    *)
(* kept as the remaining delay (ms) of every pending timer; firing the     *)
(* earliest timer advances all the others by the same amount.              *)
(*                                                                         *)
(* Strings are sequences of one-character strings.                         *)
(***************************************************************************)
EXTENDS Integers, Sequences, FiniteSets, TLC

VARIABLES
    svc,      \* VoiceService fields: isInitialized, currentState, recordingTimeout
    stt,      \* WhisperSTT fields
    tts,      \* PiperTTS fields
    vad,      \* VoiceActivityDetector fields
    timers,   \* pending setTimeout/setInterval entries, in creation order
    mq,       \* microtask queue: suspended async calls ready to resume
    emitted,  \* events delivered to subscribers by the last segment
    act,      \* the segment that ran last: operation, position, result
    calls,    \* number of public calls made so far
    hung,     \* calls whose awaited promise can never settle
    hist,     \* history: what has been observed since the listening session began
    input,    \* the argument a pure function is applied to
    output,   \* its result
    git       \* GitService: cloneInProgress and its cloneUserRepo calls

vars == <<svc, stt, tts, vad, timers, mq, emitted, act, calls, hung, hist,
          input, output, git>>

----------------------------------------------------------------------------
(* Bounds of the model *)

\* public calls made on the coordinator in one behaviour
MaxCalls == 3

\* calls made on an engine in one behaviour, when the engine is driven on its own
MaxEngineCalls == 4

\* cloneUserRepo() calls made on the GitService in one behaviour
MaxCloneCalls == 3

\* the files mockCloneRepository writes
MockFiles == 5

----------------------------------------------------------------------------
(* Text helpers *)

Min(a, b) == IF a < b THEN a ELSE b
Max(a, b) == IF a > b THEN a ELSE b

UpperChars == <<"A", "B", "C", "D", "E", "F", "G", "H", "I", "J", "K", "L", "M", "N", "O", "P", "Q", "R", "S", "T", "U", "V", "W", "X", "Y", "Z">>
LowerChars == <<"a", "b", "c", "d", "e", "f", "g", "h", "i", "j", "k", "l", "m", "n", "o", "p", "q", "r", "s", "t", "u", "v", "w", "x", "y", "z">>

\* String.prototype.toLowerCase, one character
LowerChar(c) ==
    IF \E i \in 1..Len(UpperChars) : UpperChars[i] = c
    THEN LowerChars[CHOOSE i \in 1..Len(UpperChars) : UpperChars[i] = c]
    ELSE c

\* String.prototype.toUpperCase, one character
UpperChar(c) ==
    IF \E i \in 1..Len(LowerChars) : LowerChars[i] = c
    THEN UpperChars[CHOOSE i \in 1..Len(LowerChars) : LowerChars[i] = c]
    ELSE c

\* String.prototype.toUpperCase
ToUpperCase(s) == [i \in 1..Len(s) |-> UpperChar(s[i])]

\* String.prototype.toLowerCase
ToLowerCase(s) == [i \in 1..Len(s) |-> LowerChar(s[i])]

\* String.prototype.trim (the only whitespace of the model is the space)
Trim(s) ==
    LET keep == {i \in 1..Len(s) : s[i] # " "}
    IN  IF keep = {} THEN <<>>
        ELSE LET lo == CHOOSE i \in keep : \A j \in keep : i <= j
                 hi == CHOOSE i \in keep : \A j \in keep : i >= j
             IN  SubSeq(s, lo, hi)

\* String.prototype.includes
Includes(s, k) ==
    \E i \in 0..(Len(s) - Len(k)) : SubSeq(s, i + 1, i + Len(k)) = k

\* String.prototype.split(' '): the tokens between single spaces, empty ones
\* included.  The tokens of s[lo..hi] are those of its two halves, the last
\* token of the first half continuing into the first token of the second.
RECURSIVE SplitRange(_, _, _)
SplitRange(s, lo, hi) ==
    IF lo > hi THEN << <<>> >>
    ELSE IF lo = hi THEN (IF s[lo] = " " THEN << <<>>, <<>> >> ELSE << <<s[lo]>> >>)
    ELSE LET mid == (lo + hi) \div 2
             l == SplitRange(s, lo, mid)
             r == SplitRange(s, mid + 1, hi)
         IN  SubSeq(l, 1, Len(l) - 1) \o <<l[Len(l)] \o r[1]>> \o Tail(r)

Split(s) == SplitRange(s, 1, Len(s))

----------------------------------------------------------------------------
(* Tables of the source *)

MOCK_TRANSCRIPTS == <<
    [text |-> <<"a", "u", "d", "i", "t", " ", "t", "h", "e", " ", "r", "e", "p", "o", "s", "i", "t", "o", "r", "y">>,
     delay |-> 2000],
    [text |-> <<"s", "c", "a", "n", " ", "f", "o", "r", " ", "v", "u", "l", "n", "e", "r", "a", "b", "i", "l", "i", "t", "i", "e", "s">>,
     delay |-> 2500],
    [text |-> <<"e", "x", "p", "l", "a", "i", "n", " ", "t", "h", "e", " ", "s", "e", "c", "u", "r", "i", "t", "y", " ", "f", "i", "n", "d", "i", "n", "g", "s">>,
     delay |-> 3000],
    [text |-> <<"g", "e", "n", "e", "r", "a", "t", "e", " ", "s", "e", "c", "u", "r", "i", "t", "y", " ", "r", "e", "p", "o", "r", "t">>,
     delay |-> 2200],
    [text |-> <<"h", "e", "l", "p", " ", "m", "e", " ", "w", "i", "t", "h", " ", "c", "o", "m", "m", "a", "n", "d", "s">>,
     delay |-> 1800],
    [text |-> <<"s", "t", "o", "p", " ", "l", "i", "s", "t", "e", "n", "i", "n", "g">>,
     delay |-> 1500] >>

COMMAND_KEYWORDS == <<
    [keyword |-> <<"a", "u", "d", "i", "t">>, intent |-> "audit"],
    [keyword |-> <<"s", "c", "a", "n">>, intent |-> "scan"],
    [keyword |-> <<"v", "u", "l", "n", "e", "r", "a", "b", "i", "l", "i", "t", "i", "e", "s">>, intent |-> "scan"],
    [keyword |-> <<"v", "u", "l", "n", "e", "r", "a", "b", "i", "l", "i", "t", "y">>, intent |-> "scan"],
    [keyword |-> <<"e", "x", "p", "l", "a", "i", "n">>, intent |-> "explain"],
    [keyword |-> <<"d", "e", "s", "c", "r", "i", "b", "e">>, intent |-> "explain"],
    [keyword |-> <<"r", "e", "p", "o", "r", "t">>, intent |-> "report"],
    [keyword |-> <<"s", "u", "m", "m", "a", "r", "y">>, intent |-> "report"],
    [keyword |-> <<"s", "t", "o", "p">>, intent |-> "stop"],
    [keyword |-> <<"c", "a", "n", "c", "e", "l">>, intent |-> "stop"],
    [keyword |-> <<"h", "e", "l", "p">>, intent |-> "help"],
    [keyword |-> <<"c", "o", "m", "m", "a", "n", "d", "s">>, intent |-> "help"] >>

\* DEFAULT_STT_CONFIG
vadEnabled == TRUE
maxRecordingMs == 30000

\* the simulated model-loading delays of the three engines
SttInitMs == 800
TtsInitMs == 600
VadInitMs == 300

\* VoiceActivityDetector polling interval
VadIntervalMs == 500

\* parseAndDispatchCommand: delay of the return to idle
ProcessingMs == 500

\* WhisperSTT.startListening: delay of the interim callback of word i (0-based)
InterimDelay(i) == 400 + (i * 350)

\* WhisperSTT.startListening: confidence of the interim callback of word i of n,
\* 0.5 + (i / n) * 0.3, in thousandths
InterimConfidence(i, n) == 500 + ((300 * i) \div n)

\* WhisperSTT.startListening: 0.92 + Math.random() * 0.07, in thousandths;
\* the lowest and the highest value the random draw can give
FinalConfidences == {920, 989}

----------------------------------------------------------------------------
(* VoiceService.parseAndDispatchCommand: the keyword loop *)

RECURSIVE MatchFrom(_, _)
MatchFrom(lower, i) ==
    IF i > Len(COMMAND_KEYWORDS)
    THEN [keyword |-> <<>>, intent |-> "unknown"]
    ELSE IF Includes(lower, COMMAND_KEYWORDS[i].keyword)
         THEN COMMAND_KEYWORDS[i]
         ELSE MatchFrom(lower, i + 1)

\* the keyword loop on the transcript as it was spoken, not lower-cased
ParseCommandCaseSensitive(transcript) == MatchFrom(Trim(transcript), 1)

ParseCommand(transcript) == MatchFrom(Trim(ToLowerCase(transcript)), 1)

----------------------------------------------------------------------------
(* PiperTTS.speak: the simulated duration of an utterance *)

WordCount(text) == Len(Split(text))

\* the duration without the cap
SpeakDurationUncapped(text) ==
    Max(1000, (WordCount(text) * 60 * 1000) \div 150)

\* Math.max(1000, (wordCount / 150) * 60 * 1000), capped at 5000.  The source
\* computes it in double precision, where it is 400 * wordCount to within one
\* unit in the last place (2800.0000000000005 for 7 words, 3599.9999999999995
\* for 9); the model computes it in exact integer milliseconds.
SpeakDuration(text) ==
    Min(Max(1000, (WordCount(text) * 60 * 1000) \div 150), 5000)

----------------------------------------------------------------------------
(* The program state as one record, so that a segment is a composition of *)
(* the calls it makes.  ev collects the events the segment delivers.      *)

World ==
    [svc |-> svc, stt |-> stt, tts |-> tts, vad |-> vad,
     timers |-> timers, mq |-> mq, hung |-> hung, ev |-> <<>>,
     at |-> svc.currentState]

\* an event delivered to a subscriber
Event(type) == [type |-> type, a |-> "", n |-> 0, f |-> FALSE, text |-> <<>>]

Emit(w, e) == [w EXCEPT !.ev = Append(@, e)]

\* a suspended async call: the public operation, where it resumes, its
\* argument, and (bookkeeping) the pipeline state it was called in
Task(op, pc, text) == [op |-> op, pc |-> pc, text |-> text, at |-> ""]

\* the continuation of the running call joins the microtask queue
Enqueue(w, t) == [w EXCEPT !.mq = Append(@, [t EXCEPT !.at = w.at])]

\* VoiceService.addThought: a diagnostic log event of the given severity
AddThought(w, level) == Emit(w, [Event("log") EXCEPT !.a = level])

\* VoiceService.updateState
UpdateState(w, state) ==
    Emit([w EXCEPT !.svc.currentState = state],
         [Event("state") EXCEPT !.a = state, !.f = w.vad.isActive])

----------------------------------------------------------------------------
(* Timers.  A handle is the id of a timer; 0 stands for undefined and for  *)
(* the handle of a timer that has fired or was cleared (clearTimeout       *)
(* ignores both).                                                          *)

Timer(kind, rem) ==
    [id |-> 0, kind |-> kind, rem |-> rem, tag |-> "", owner |-> "", at |-> "",
     p |-> 0, i |-> 0, key |-> 0, flag |-> FALSE, pt |-> <<>>]

LiveIds(w) == {w.timers[k].id : k \in 1..Len(w.timers)}

Handles(w) ==
    {w.svc.recordingTimeout, w.stt.currentTimeout, w.stt.interimTimeout,
     w.tts.currentTimeout, w.vad.simulationInterval}

\* the handle the next setTimeout/setInterval returns
NewId(w) ==
    CHOOSE n \in 1..(Len(w.timers) + Cardinality(Handles(w)) + 1) :
        /\ n \notin LiveIds(w) \cup Handles(w)
        /\ \A m \in 1..(n - 1) : m \in LiveIds(w) \cup Handles(w)

\* setTimeout / setInterval
AddTimer(w, t) ==
    [w EXCEPT !.timers = Append(@, [t EXCEPT !.id = NewId(w), !.at = w.at])]

RECURSIVE RemoveId(_, _)
RemoveId(ts, id) ==
    IF ts = <<>> THEN <<>>
    ELSE IF Head(ts).id = id THEN Tail(ts)
    ELSE <<Head(ts)>> \o RemoveId(Tail(ts), id)

\* clearTimeout / clearInterval.  The promise PiperTTS.speak returned is
\* settled only by its timer: clearing that timer leaves the awaiting call
\* suspended for ever.
ClearTimer(w, id) ==
    IF id \notin LiveIds(w) THEN w
    ELSE LET t == CHOOSE x \in {w.timers[k] : k \in 1..Len(w.timers)} : x.id = id
         IN  [w EXCEPT !.timers = RemoveId(@, id),
                       !.hung = IF t.kind = "tts" /\ t.owner # "" THEN @ + 1 ELSE @]

\* handles of timers that are gone read as 0
Normalize(w) ==
    LET h(x) == IF x \in LiveIds(w) THEN x ELSE 0
    IN  [w EXCEPT !.svc.recordingTimeout = h(@),
                  !.stt.currentTimeout = h(@),
                  !.stt.interimTimeout = h(@),
                  !.tts.currentTimeout = h(@),
                  !.vad.simulationInterval = h(@)]

\* what a segment was: the operation, the position in it, what it returned
\* ("pending" while suspended), the pipeline state it started in, the pipeline
\* state its call was made in, its argument
Act(op, pc, ret, text) ==
    [op |-> op, pc |-> pc, ret |-> ret, from |-> svc.currentState, at |-> "",
     text |-> text]

IsFinal(e) == e.type = "transcript" /\ e.f

\* no operation is in flight: nothing waits in the microtask queue and no
\* timer holds the continuation of a call
Quiescent ==
    /\ mq = <<>>
    /\ \A k \in 1..Len(timers) : timers[k].kind \notin {"init", "tts"}

\* History of the listening session.  finals, late: the final and the
\* interim-after-final transcript events delivered since the speech engine
\* last began to listen.  conf, low: the confidence of the last interim event
\* of the session, and whether an interim event came with a lower confidence
\* than the one before it.  key, stale: the partialText key of the session's
\* own interim callbacks, and whether an interim callback scheduled by an
\* earlier startListening call delivered an event in this session.  leaked,
\* revived: the detector intervals that outlived a stop(), and whether one of
\* them gave its speech-detected callback after that stop().  stopped:
\* "stopping" from a stopListening() call, "stopped" once it has completed,
\* "no" as soon as a startListening() call is made.  destroyed: a destroy()
\* call has completed and no initialize() call was made or ran since.  spoken:
\* speakAnalysis() was accepted in state listening since the last
\* startListening() call.  solo: "started" once
\* startListening() was called on an initialized, idle pipeline (its engines
\* ready) with no operation in flight, "final" once the final transcript
\* arrived after that, "no" as soon as any other public operation is invoked.
RECURSIVE Observe(_, _)
Observe(h, ev) ==
    IF ev = <<>> THEN h
    ELSE LET e == Head(ev)
         IN  Observe(IF e.type # "transcript" THEN h
                     ELSE IF e.f THEN [h EXCEPT !.finals = @ + 1]
                     ELSE [h EXCEPT !.late = @ \/ h.finals > 0,
                                    !.low = @ \/ e.n < h.conf,
                                    !.conf = e.n],
                     Tail(ev))

History(n, a) ==
    LET began == ~stt.isListening /\ n.stt.isListening
        ended == stt.isListening /\ ~n.stt.isListening
        gone == {k \in 1..Len(timers) :
                    /\ timers[k].kind = "interim"
                    /\ \A j \in 1..Len(n.timers) : n.timers[j].id # timers[k].id}
        last == {j \in 1..Len(n.timers) : n.timers[j].id = n.stt.interimTimeout}
        h1 == IF began
              THEN [hist EXCEPT !.finals = 0, !.late = FALSE, !.conf = 0,
                                !.low = FALSE, !.stale = FALSE,
                                !.key = IF last = {} THEN 0
                                        ELSE n.timers[CHOOSE j \in last : TRUE].key]
              ELSE hist
        h2 == Observe(h1, n.ev)
        h3 == [h2 EXCEPT
                  !.stale = @ \/ /\ a.op = "timer" /\ a.pc = "interim"
                                 /\ n.ev # <<>>
                                 /\ \E k \in gone : timers[k].key # h1.key,
                  !.conf = IF ended THEN 0 ELSE @]
        intervals == {n.timers[j].id : j \in {i \in 1..Len(n.timers) :
                                                  n.timers[i].kind = "vad"}}
        detected == {n.timers[j].id : j \in {i \in 1..Len(n.timers) :
                        /\ n.timers[i].kind = "vad" /\ n.timers[i].flag
                        /\ \E k \in 1..Len(timers) :
                               timers[k].id = n.timers[i].id /\ ~timers[k].flag}}
        h4 == [h3 EXCEPT
                  !.leaked = (IF vad.isActive /\ ~n.vad.isActive
                              THEN @ \cup intervals ELSE @) \cap intervals,
                  !.revived = @ \/ detected \cap hist.leaked # {}]
    IN  [h4 EXCEPT
            !.destroyed =
                IF a.op = "initialize" THEN FALSE
                ELSE IF a.op = "destroy" /\ a.ret = "void" THEN TRUE
                ELSE @,
            !.stopped =
                IF a.op = "startListening" /\ a.pc = "call" THEN "no"
                ELSE IF a.op = "stopListening" /\ a.pc = "call" THEN "stopping"
                ELSE IF a.op = "stopListening" /\ a.ret = "void" /\ @ = "stopping"
                     THEN "stopped"
                     ELSE @,
            !.spoken =
                IF a.op = "startListening" /\ a.pc = "call" THEN FALSE
                ELSE IF a.op = "speakAnalysis" /\ a.pc = "call"
                        /\ a.from = "listening" /\ svc.isInitialized
                     THEN TRUE
                     ELSE @,
            !.solo =
                IF a.op = "startListening" /\ a.pc = "call"
                THEN IF /\ svc.isInitialized /\ svc.currentState = "idle"
                        /\ stt.initialized /\ tts.initialized /\ vad.initialized
                        /\ Quiescent
                     THEN "started" ELSE "no"
                ELSE IF a.pc = "call" THEN "no"
                ELSE IF @ = "started" /\ \E i \in 1..Len(n.ev) : IsFinal(n.ev[i])
                     THEN "final"
                     ELSE @]

\* the segment's result becomes the next state
Commit(w, a) ==
    LET n == Normalize(w)
    IN  /\ svc' = n.svc
        /\ stt' = n.stt
        /\ tts' = n.tts
        /\ vad' = n.vad
        /\ timers' = n.timers
        /\ mq' = n.mq
        /\ hung' = n.hung
        /\ emitted' = n.ev
        /\ act' = a
        /\ hist' = History(n, a)
        /\ UNCHANGED <<input, output, git>>

----------------------------------------------------------------------------
(* VoiceService: the callbacks initialize() wires into the engines *)

\* parseAndDispatchCommand dispatching only the commands it recognised
ParseAndDispatchCommandKnownOnly(w, transcript, confidence) ==
    LET command == ParseCommand(transcript)
        w1 == AddThought(w, IF command.intent = "unknown" THEN "warning" ELSE "success")
        w2 == UpdateState(w1, "processing")
        w3 == IF command.intent = "unknown" THEN w2
              ELSE Emit(w2, [Event("command") EXCEPT !.a = command.intent,
                                                     !.text = command.keyword,
                                                     !.n = confidence])
    IN  AddTimer(w3, Timer("proc", ProcessingMs))

\* parseAndDispatchCommand
ParseAndDispatchCommand(w, transcript, confidence) ==
    LET command == ParseCommand(transcript)
        w1 == AddThought(w, IF command.intent = "unknown" THEN "warning" ELSE "success")
        w2 == UpdateState(w1, "processing")
        w3 == Emit(w2, [Event("command") EXCEPT !.a = command.intent,
                                                !.text = command.keyword,
                                                !.n = confidence])
    IN  AddTimer(w3, Timer("proc", ProcessingMs))

\* the callback given to stt.setOnTranscript
SvcOnTranscript(w, text, confidence, isFinal) ==
    LET w1 == Emit(w, [Event("transcript") EXCEPT !.text = text, !.n = confidence,
                                                  !.f = isFinal])
    IN  IF isFinal
        THEN ParseAndDispatchCommand(AddThought(w1, "info"), text, confidence)
        ELSE w1

\* the callback given to tts.setOnStatus
SvcOnStatus(w, status) ==
    LET isSpeaking == (status = "started")
        w1 == Emit(w, [Event("tts") EXCEPT !.f = isSpeaking])
    IN  UpdateState(w1, IF isSpeaking THEN "speaking" ELSE "idle")

\* the callback given to vad.setOnVAD
SvcOnVAD(w, isSpeaking) ==
    IF ~isSpeaking /\ w.svc.currentState = "listening"
    THEN AddThought(w, "info")
    ELSE w

----------------------------------------------------------------------------
(* The engines' callback slots: "none" (unset), "svc" (the coordinator's   *)
(* callback) or "probe" (a subscriber that records the call as an event).  *)

OnTranscript(w, text, confidence, isFinal) ==
    CASE w.stt.onTranscript = "svc" -> SvcOnTranscript(w, text, confidence, isFinal)
      [] w.stt.onTranscript = "probe" ->
            Emit(w, [Event("transcript") EXCEPT !.text = text, !.n = confidence,
                                                !.f = isFinal])
      [] OTHER -> w

OnStatus(w, status) ==
    CASE w.tts.onStatus = "svc" -> SvcOnStatus(w, status)
      [] w.tts.onStatus = "probe" -> Emit(w, [Event("tts") EXCEPT !.f = (status = "started")])
      [] OTHER -> w

OnVAD(w, isSpeaking) ==
    CASE w.vad.onVAD = "svc" -> SvcOnVAD(w, isSpeaking)
      [] w.vad.onVAD = "probe" -> Emit(w, [Event("vad") EXCEPT !.f = isSpeaking])
      [] OTHER -> w

----------------------------------------------------------------------------
(* WhisperSTT *)

Words(p) == Split(MOCK_TRANSCRIPTS[p].text)

\* the partialText variable of a new startListening call: a key no pending
\* interim callback uses
NewKey(w) ==
    LET used == {w.timers[k].key : k \in 1..Len(w.timers)}
    IN  CHOOSE n \in 1..(Len(w.timers) + 1) :
            n \notin used /\ \A m \in 1..(n - 1) : m \in used

\* the loop that schedules one interim callback per word; each setTimeout
\* overwrites this.interimTimeout
RECURSIVE ScheduleInterim(_, _, _, _)
ScheduleInterim(w, p, i, key) ==
    IF i >= Len(Words(p)) THEN w
    ELSE LET id == NewId(w)
             w1 == AddTimer(w, [Timer("interim", InterimDelay(i))
                                  EXCEPT !.p = p, !.i = i, !.key = key])
         IN  ScheduleInterim([w1 EXCEPT !.stt.interimTimeout = id], p, i + 1, key)

\* startListening() past its two guards, with mock phrase p
SttBeginSession(w, p) ==
    LET w1 == [w EXCEPT !.stt.isListening = TRUE]
        w2 == ScheduleInterim(w1, p, 0, NewKey(w1))
        id == NewId(w2)
        w3 == AddTimer(w2, [Timer("final", MOCK_TRANSCRIPTS[p].delay) EXCEPT !.p = p])
    IN  [w3 EXCEPT !.stt.currentTimeout = id]

\* startListening() throws when the engine is not initialized
SttStartThrows(w) == ~w.stt.initialized

\* startListening(), when it does not throw
SttStartListening(w, p) ==
    IF w.stt.isListening THEN w ELSE SttBeginSession(w, p)

\* stopListening()
SttStopListening(w) ==
    LET w1 == [w EXCEPT !.stt.isListening = FALSE]
        w2 == ClearTimer(w1, w1.stt.currentTimeout)
    IN  ClearTimer(w2, w2.stt.interimTimeout)

\* the interim callback reporting its partial text as a final result
SttInterimFiredAsFinal(w, t) ==
    IF ~w.stt.isListening THEN w
    ELSE LET words == Words(t.p)
             partialText == t.pt \o (IF t.i > 0 THEN <<" ">> ELSE <<>>) \o words[t.i + 1]
         IN  OnTranscript(w, partialText, InterimConfidence(t.i, Len(words)), TRUE)

\* the interim callback of timer t: appends its word to the partialText its
\* startListening call shares among its callbacks
SttInterimFired(w, t) ==
    IF ~w.stt.isListening THEN w
    ELSE LET words == Words(t.p)
             partialText == t.pt \o (IF t.i > 0 THEN <<" ">> ELSE <<>>) \o words[t.i + 1]
             w1 == [w EXCEPT !.timers =
                       [k \in 1..Len(w.timers) |->
                           IF w.timers[k].kind = "interim" /\ w.timers[k].key = t.key
                           THEN [w.timers[k] EXCEPT !.pt = partialText]
                           ELSE w.timers[k]]]
         IN  OnTranscript(w1, partialText, InterimConfidence(t.i, Len(words)), FALSE)

\* the final callback of timer t
SttFinalFired(w, t, confidence) ==
    IF ~w.stt.isListening THEN w
    ELSE LET w1 == OnTranscript(w, MOCK_TRANSCRIPTS[t.p].text, confidence, TRUE)
         IN  [w1 EXCEPT !.stt.isListening = FALSE]

----------------------------------------------------------------------------
(* PiperTTS *)

\* stop()
TtsStop(w) ==
    LET w1 == ClearTimer(w, w.tts.currentTimeout)
        w2 == [w1 EXCEPT !.tts.isSpeaking = FALSE]
    IN  OnStatus(w2, "finished")

\* speak(text) throws when the engine is not initialized
TtsSpeakThrows(w) == ~w.tts.initialized

\* speak(text) from "this.isSpeaking = true" on; owner is the call that awaits
\* the returned promise
TtsBeginUtterance(w, text, owner) ==
    LET w1 == [w EXCEPT !.tts.isSpeaking = TRUE]
        w2 == OnStatus(w1, "started")
        id == NewId(w2)
        w3 == AddTimer(w2, [Timer("tts", SpeakDuration(text)) EXCEPT !.owner = owner])
    IN  [w3 EXCEPT !.tts.currentTimeout = id]

\* the callback of the utterance timer
TtsFinished(w) ==
    OnStatus([w EXCEPT !.tts.isSpeaking = FALSE], "finished")

----------------------------------------------------------------------------
(* VoiceActivityDetector *)

\* start() throws when the detector is not initialized
VadStartThrows(w) == ~w.vad.initialized

\* start(), when it does not throw; flag is the callback's speechDetected
VadStart(w) ==
    LET w1 == [w EXCEPT !.vad.isActive = TRUE]
        id == NewId(w1)
        w2 == AddTimer(w1, Timer("vad", VadIntervalMs))
    IN  [w2 EXCEPT !.vad.simulationInterval = id]

\* stop()
VadStop(w) ==
    ClearTimer([w EXCEPT !.vad.isActive = FALSE], w.vad.simulationInterval)

\* one tick of the interval t (position k among the timers)
VadTick(w, k) ==
    LET t == w.timers[k]
    IN  IF ~w.vad.isActive \/ t.flag THEN w
        ELSE OnVAD([w EXCEPT !.timers[k].flag = TRUE], TRUE)

\* triggerSilence()
VadTriggerSilence(w) == OnVAD(w, FALSE)

----------------------------------------------------------------------------
(* VoiceService: the segments of its async methods.  A segment gives the   *)
(* world it leaves and what the call returned: "pending" while the call is *)
(* suspended at an await.                                                  *)

Seg(w, ret) == [w |-> w, ret |-> ret]

\* initialize(): from the call to the first await (stt.initialize)
InitializeCall(w) ==
    LET w1 == AddThought(AddThought(w, "processing"), "processing")
    IN  Seg(AddTimer(w1, [Timer("init", SttInitMs) EXCEPT !.tag = "stt",
                                           !.owner = "initialize"]), "pending")

\* initialize(): after stt.initialize resolved, to the await of tts.initialize
InitializeAfterStt(w) ==
    LET w1 == AddThought(AddThought(w, "success"), "processing")
    IN  Seg(AddTimer(w1, [Timer("init", TtsInitMs) EXCEPT !.tag = "tts",
                                           !.owner = "initialize"]), "pending")

\* initialize(): after tts.initialize resolved, to the await of vad.initialize
InitializeAfterTts(w) ==
    LET w1 == AddThought(AddThought(w, "success"), "processing")
    IN  Seg(AddTimer(w1, [Timer("init", VadInitMs) EXCEPT !.tag = "vad",
                                           !.owner = "initialize"]), "pending")

\* initialize(): after vad.initialize resolved, to "return true"
InitializeFinish(w) ==
    LET w1 == AddThought(w, "success")
        w2 == [w1 EXCEPT !.stt.onTranscript = "svc",
                         !.tts.onStatus = "svc",
                         !.vad.onVAD = "svc",
                         !.svc.isInitialized = TRUE]
    IN  Seg(UpdateState(AddThought(w2, "success"), "idle"), "true")

\* the catch block without its updateState('error')
InitializeCatchKeepsState(w) ==
    Seg(AddThought(w, "error"), "false")

\* initialize(): the catch block
InitializeCatch(w) ==
    Seg(UpdateState(AddThought(w, "error"), "error"), "false")

\* the second half of an engine's initialize(), run when its timer resolved
EngineReady(w, engine) ==
    CASE engine = "stt" -> [w EXCEPT !.stt.initialized = TRUE]
      [] engine = "tts" -> [w EXCEPT !.tts.initialized = TRUE]
      [] engine = "vad" -> [w EXCEPT !.vad.initialized = TRUE]

\* startListening(): "await this.stt.startListening()" with mock phrase p
StartListeningStt(w, p) ==
    IF SttStartThrows(w)
    THEN Seg(Enqueue(w, Task("startListening", "catch", <<>>)), "pending")
    ELSE Seg(Enqueue(SttStartListening(w, p), Task("startListening", "arm", <<>>)),
             "pending")

\* startListening(): the try block up to its first await
StartListeningTry(w, p) ==
    LET w1 == AddThought(UpdateState(w, "listening"), "processing")
    IN  IF vadEnabled
        THEN IF VadStartThrows(w1)
             THEN Seg(Enqueue(w1, Task("startListening", "catch", <<>>)), "pending")
             ELSE Seg(Enqueue(VadStart(w1), Task("startListening", "stt", <<>>)),
                      "pending")
        ELSE StartListeningStt(w1, p)

\* startListening(): arming the max-duration timer, the last statement
StartListeningArm(w) ==
    LET id == NewId(w)
        w1 == AddTimer(w, Timer("maxrec", maxRecordingMs))
    IN  Seg([w1 EXCEPT !.svc.recordingTimeout = id], "void")

\* startListening(): the catch block
StartListeningCatch(w) ==
    Seg(UpdateState(AddThought(w, "error"), "error"), "void")

\* startListening() without its "already listening" guard
StartListeningCallNoListeningGuard(w, p) ==
    IF ~w.svc.isInitialized THEN Seg(AddThought(w, "error"), "void")
    ELSE IF w.tts.isSpeaking
         THEN Seg(Enqueue(TtsStop(w), Task("startListening", "try", <<>>)), "pending")
         ELSE StartListeningTry(w, p)

\* startListening() without its "not initialized" guard
StartListeningCallNoInitGuard(w, p) ==
    IF w.svc.currentState = "listening" THEN Seg(AddThought(w, "warning"), "void")
    ELSE IF w.tts.isSpeaking
         THEN Seg(Enqueue(TtsStop(w), Task("startListening", "try", <<>>)), "pending")
         ELSE StartListeningTry(w, p)

\* startListening(): from the call to the first await
StartListeningCall(w, p) ==
    IF ~w.svc.isInitialized THEN Seg(AddThought(w, "error"), "void")
    ELSE IF w.svc.currentState = "listening" THEN Seg(AddThought(w, "warning"), "void")
    ELSE IF w.tts.isSpeaking
         THEN Seg(Enqueue(TtsStop(w), Task("startListening", "try", <<>>)), "pending")
         ELSE StartListeningTry(w, p)

\* stopListening(): from the call to "await this.stt.stopListening()"; op is
\* the call it belongs to (stopListening itself, speakAnalysis, or the
\* max-duration timer, which does not await it)
StopListeningCall(w, op, text) ==
    LET w1 == ClearTimer(w, w.svc.recordingTimeout)
    IN  Enqueue(SttStopListening(w1), Task(op, "sl.vad", text))

\* stopListening(): "await this.vad.stop()"
StopListeningVad(w, op, text) ==
    Enqueue(VadStop(w), Task(op, "sl.fin", text))

\* stopListening() setting the state to idle whatever it was
StopListeningFinishAlways(w) == UpdateState(w, "idle")

\* stopListening(): after the two awaits
StopListeningFinish(w) ==
    IF w.svc.currentState = "listening" THEN UpdateState(w, "idle") ELSE w

\* speakAnalysis(): the try block up to the await of tts.speak
SpeakAnalysisTry(w, text) ==
    LET w1 == AddThought(UpdateState(w, "speaking"), "processing")
    IN  IF TtsSpeakThrows(w1)
        THEN Seg(Enqueue(w1, Task("speakAnalysis", "catch", text)), "pending")
        ELSE IF w1.tts.isSpeaking
             THEN Seg(Enqueue(TtsStop(w1), Task("speakAnalysis", "tts.begin", text)),
                      "pending")
             ELSE Seg(TtsBeginUtterance(w1, text, "speakAnalysis"), "pending")

\* speakAnalysis(): the finally block
SpeakAnalysisFinally(w) ==
    IF w.svc.currentState = "speaking" THEN UpdateState(w, "idle") ELSE w

\* speakAnalysis(): after tts.speak resolved
SpeakAnalysisDone(w) == Seg(SpeakAnalysisFinally(AddThought(w, "success")), "void")

\* speakAnalysis(): the catch block
SpeakAnalysisCatch(w) == Seg(SpeakAnalysisFinally(AddThought(w, "error")), "void")

\* speakAnalysis(): from the call to the first await
SpeakAnalysisCall(w, text) ==
    IF ~w.svc.isInitialized THEN Seg(AddThought(w, "error"), "void")
    ELSE IF w.stt.isListening
         THEN Seg(StopListeningCall(w, "speakAnalysis", text), "pending")
         ELSE SpeakAnalysisTry(w, text)

\* stopSpeaking(): from the call to "await this.tts.stop()"
StopSpeakingCall(w) ==
    Seg(Enqueue(TtsStop(w), Task("stopSpeaking", "fin", <<>>)), "pending")

\* stopSpeaking(): after the await
StopSpeakingFinish(w) ==
    Seg(IF w.svc.currentState = "speaking" THEN UpdateState(w, "idle") ELSE w, "void")

\* getStatus(): the readiness the engines report
GetStatus(w) ==
    [sttReady |-> w.stt.initialized,
     ttsReady |-> w.tts.initialized,
     vadReady |-> w.vad.initialized]

\* isVoiceReady()
IsVoiceReady(w) == w.svc.isInitialized /\ w.stt.initialized /\ w.tts.initialized

\* destroy(): from the call to the await inside stt.destroy
DestroyCall(w) ==
    Seg(Enqueue(SttStopListening(w), Task("destroy", "stt.off", <<>>)), "pending")

\* destroy(): the last two statements
DestroyFinish(w) ==
    Seg(UpdateState([w EXCEPT !.svc.isInitialized = FALSE], "idle"), "void")

\* the max-duration callback without its "still listening" test
RecordingTimeoutFiredAlways(w) ==
    StopListeningCall(AddThought(w, "warning"), "maxDuration", <<>>)

\* the max-duration callback armed by startListening()
RecordingTimeoutFired(w) ==
    IF w.svc.currentState = "listening"
    THEN StopListeningCall(AddThought(w, "warning"), "maxDuration", <<>>)
    ELSE w

\* the 500 ms callback doing nothing
ProcessingTimeoutFiredNever(w) == w

\* the 500 ms callback without its "still processing" test
ProcessingTimeoutFiredAlways(w) == UpdateState(w, "idle")

\* the callback parseAndDispatchCommand schedules
ProcessingTimeoutFired(w) ==
    IF w.svc.currentState = "processing" THEN UpdateState(w, "idle") ELSE w

----------------------------------------------------------------------------
(* Inputs *)

\* a text of n words
NWords(n) == [i \in 1..(2 * n - 1) |-> IF i % 2 = 1 THEN "w" ELSE " "]

\* the texts the caller has spoken: "hello world" and one long enough to hit
\* the cap
SpokenTexts ==
    {<<"h", "e", "l", "l", "o", " ", "w", "o", "r", "l", "d">>, NWords(13)}

\* Math.floor(Math.random() * MOCK_TRANSCRIPTS.length), as a 1-based index
Phrases == 1..Len(MOCK_TRANSCRIPTS)

\* The phrase is drawn inside stt.startListening.  The start of the try block
\* reaches that call without an await only when the detector is disabled;
\* otherwise the segment ends before the draw and the phrase is immaterial.
PhrasesAtTry == IF vadEnabled THEN {1} ELSE Phrases

----------------------------------------------------------------------------
(* GitService: cloneUserRepo and the analysis it schedules.  A call is at  *)
(* "idle" before it is made, then at the await it is suspended at, and at  *)
(* "rejected" (thrown by the guard), "failed" (thrown from the try block)  *)
(* or "returned" once it has ended.  an is where the analysis scheduled by *)
(* a returned call stands.                                                 *)

\* isValidGitHubUrl: the prefix, an owner and a repository of one or more
\* characters of [a-zA-Z0-9._-] separated by one slash, then an optional
\* slash.  The optional ".git" of the pattern matches nothing the repository
\* class does not match already.
IsValidGitHubUrl(url) ==
    LET prefix == <<"h", "t", "t", "p", "s", ":", "/", "/",
                    "g", "i", "t", "h", "u", "b", ".", "c", "o", "m", "/">>
        n == Len(prefix)
        rest == IF Len(url) > n /\ url[Len(url)] = "/"
                THEN SubSeq(url, n + 1, Len(url) - 1)
                ELSE SubSeq(url, n + 1, Len(url))
        slashes == {i \in 1..Len(rest) : rest[i] = "/"}
        nameChar(c) ==
            \/ \E i \in 1..Len(LowerChars) : LowerChars[i] = c
            \/ \E i \in 1..Len(UpperChars) : UpperChars[i] = c
            \/ c \in {"0", "1", "2", "3", "4", "5", "6", "7", "8", "9", ".", "_", "-"}
    IN  /\ Len(url) > n
        /\ SubSeq(url, 1, n) = prefix
        /\ Cardinality(slashes) = 1
        /\ \A i \in slashes : 1 < i /\ i < Len(rest)
        /\ \A i \in 1..Len(rest) : rest[i] = "/" \/ nameChar(rest[i])

GitInit ==
    [cloneInProgress |-> FALSE,
     pc |-> [c \in 1..MaxCloneCalls |-> "idle"],
     file |-> [c \in 1..MaxCloneCalls |-> 0],
     an |-> [c \in 1..MaxCloneCalls |-> "none"],
     ev |-> <<>>,
     last |-> [op |-> "none", c |-> 0, url |-> <<>>]]

\* GitService.addThought
GitAddThought(g, type) ==
    [g EXCEPT !.ev = Append(@, [type |-> "thought", a |-> type, n |-> 0])]

\* GitService.updateProgress
UpdateProgress(g, phase, progress) ==
    [g EXCEPT !.ev = Append(@, [type |-> "progress", a |-> phase, n |-> progress])]

\* cloneUserRepo(): the catch block, which throws again, and the finally block
CloneCatch(g, c) ==
    LET g1 == UpdateProgress(GitAddThought(g, "error"), "error", 0)
    IN  [g1 EXCEPT !.cloneInProgress = FALSE, !.pc[c] = "failed"]

\* cloneUserRepo() without its guard
CloneUserRepoUnguarded(g, c, url) ==
    LET g1 == [g EXCEPT !.cloneInProgress = TRUE]
        g2 == UpdateProgress(GitAddThought(g1, "processing"), "initializing", 0)
    IN  IF ~IsValidGitHubUrl(url) THEN CloneCatch(g2, c)
        ELSE [UpdateProgress(GitAddThought(g2, "info"), "initializing", 20)
                 EXCEPT !.pc[c] = "getInfo"]

\* cloneUserRepo(): from the call to "await FileSystem.getInfoAsync(...)"
CloneUserRepoCall(g, c, url) ==
    IF g.cloneInProgress THEN [g EXCEPT !.pc[c] = "rejected"]
    ELSE LET g1 == [g EXCEPT !.cloneInProgress = TRUE]
             g2 == UpdateProgress(GitAddThought(g1, "processing"), "initializing", 0)
         IN  IF ~IsValidGitHubUrl(url) THEN CloneCatch(g2, c)
             ELSE [UpdateProgress(GitAddThought(g2, "info"), "initializing", 20)
                      EXCEPT !.pc[c] = "getInfo"]

\* cloneUserRepo() resumed at the await it is suspended at; ok: the awaited
\* promise resolved (for getInfo: the directory exists).
\*   getInfo  getInfoAsync of the repositories directory; a rejection is
\*            caught and reads as "does not exist"
\*   mkRepos  makeDirectoryAsync of the repositories directory
\*   mkLocal  makeDirectoryAsync(localPath); then mockCloneRepository starts
\*            and writes its first file
\*   write    a writeAsStringAsync of mockCloneRepository; after the last
\*            file the 2000 ms timer is armed
\*   sleep    the 2000 ms timer, which only resolves
\*   cloned   "await this.mockCloneRepository(...)"; calculateDirectorySize
\*            starts its getInfoAsync
\*   size     getInfoAsync(localPath); a rejection is caught and gives 0
\*   sized    "await this.calculateDirectorySize(...)": the repository is
\*            returned, the analysis timer armed, the finally block runs
CloneUserRepoResume(g, c, ok) ==
    LET pc == g.pc[c]
        to(x, next) == [x EXCEPT !.pc[c] = next]
    IN  CASE pc = "getInfo" -> to(g, IF ok THEN "mkLocal" ELSE "mkRepos")
          [] pc \in {"mkRepos", "mkLocal", "write"} /\ ~ok -> CloneCatch(g, c)
          [] pc = "mkRepos" /\ ok -> to(g, "mkLocal")
          [] pc = "mkLocal" /\ ok ->
                LET g1 == UpdateProgress(GitAddThought(g, "success"), "cloning", 40)
                IN  [to(GitAddThought(g1, "processing"), "write") EXCEPT !.file[c] = 0]
          [] pc = "write" /\ ok ->
                [to(g, IF g.file[c] + 1 = MockFiles THEN "sleep" ELSE "write")
                    EXCEPT !.file[c] = @ + 1]
          [] pc = "sleep" -> to(GitAddThought(g, "success"), "cloned")
          [] pc = "cloned" -> to(UpdateProgress(g, "analyzing", 80), "size")
          [] pc = "size" -> to(g, "sized")
          [] pc = "sized" ->
                LET g1 == UpdateProgress(GitAddThought(g, "success"), "completed", 100)
                IN  [to(g1, "returned") EXCEPT !.an[c] = "timer",
                                               !.cloneInProgress = FALSE]

\* triggerSecurityAnalysis of the repository call c returned, resumed where
\* it stands; ok: the awaited promise resolved (for info: package.json
\* exists; for read: the content was read and JSON.parse took it).
\*   timer  the 1000 ms timer cloneUserRepo armed: the function starts
\*   info   getInfoAsync(package.json); absent: a warning and return
\*   read   readAsStringAsync and JSON.parse; then the 3000 ms timer
\*   sleep  the 3000 ms timer: the result is reported
TriggerSecurityAnalysis(g, c, info, ok) ==
    LET an == g.an[c]
        to(x, next) == [x EXCEPT !.an[c] = next]
    IN  CASE an = "timer" -> to(GitAddThought(g, "processing"), "info")
          [] an \in {"info", "read"} /\ ~ok -> to(GitAddThought(g, "error"), "done")
          [] an = "info" /\ ok ->
                IF info THEN to(g, "read") ELSE to(GitAddThought(g, "warning"), "done")
          [] an = "read" /\ ok -> to(GitAddThought(g, "processing"), "sleep")
          [] an = "sleep" ->
                LET g1 == GitAddThought(GitAddThought(g, "warning"), "error")
                IN  [to(g1, "done")
                        EXCEPT !.ev = Append(@, [type |-> "analysis", a |-> "", n |-> 0])]

\* isCloneInProgress()
IsCloneInProgress(g) == g.cloneInProgress

----------------------------------------------------------------------------
(* Initial state: the singletons as their constructors leave them *)

Init ==
    /\ svc = [isInitialized |-> FALSE, currentState |-> "idle", recordingTimeout |-> 0]
    /\ stt = [initialized |-> FALSE, isListening |-> FALSE, onTranscript |-> "none",
              currentTimeout |-> 0, interimTimeout |-> 0]
    /\ tts = [initialized |-> FALSE, isSpeaking |-> FALSE, onStatus |-> "none",
              currentTimeout |-> 0]
    /\ vad = [initialized |-> FALSE, isActive |-> FALSE, onVAD |-> "none",
              simulationInterval |-> 0]
    /\ timers = <<>>
    /\ mq = <<>>
    /\ emitted = <<>>
    /\ act = Act("none", "", "", <<>>)
    /\ calls = 0
    /\ hung = 0
    /\ hist = [finals |-> 0, late |-> FALSE, spoken |-> FALSE, solo |-> "no",
              conf |-> 0, low |-> FALSE, key |-> 0, stale |-> FALSE,
              leaked |-> {}, revived |-> FALSE, stopped |-> "no", destroyed |-> FALSE]
    /\ input = <<>>
    /\ output = <<>>
    /\ git = GitInit

----------------------------------------------------------------------------
(* Public calls: the synchronous start of each method *)

Do(s, op, pc, text) ==
    Commit(s.w, [Act(op, pc, s.ret, text) EXCEPT !.at = s.w.at])

\* the last segment was a timer callback that delivered nothing to the caller
Silent == act.op = "timer" /\ emitted = <<>>

\* a timeout other than the detector's polling tick elapses within one polling
\* interval
TimeoutNear ==
    \E k \in 1..Len(timers) :
        timers[k].kind # "vad" /\ timers[k].rem <= VadIntervalMs

\* When the caller makes its calls: in reaction to something it was told (an
\* event, a call returning, another call it just made), or, unprompted, in
\* the last polling interval before a pending timeout elapses.
CanCall == calls < MaxCalls /\ (Silent => TimeoutNear)

Initialize ==
    /\ CanCall
    /\ calls' = calls + 1
    /\ Do(InitializeCall(World), "initialize", "call", <<>>)

StartListening ==
    /\ CanCall
    /\ calls' = calls + 1
    /\ \E p \in PhrasesAtTry :
          Do(StartListeningCall(World, p), "startListening", "call", <<>>)

StopListening ==
    /\ CanCall
    /\ calls' = calls + 1
    /\ Do(Seg(StopListeningCall(World, "stopListening", <<>>), "pending"),
          "stopListening", "call", <<>>)

SpeakAnalysis ==
    /\ CanCall
    /\ calls' = calls + 1
    /\ \E text \in SpokenTexts :
          Do(SpeakAnalysisCall(World, text), "speakAnalysis", "call", text)

StopSpeaking ==
    /\ CanCall
    /\ calls' = calls + 1
    /\ Do(StopSpeakingCall(World), "stopSpeaking", "call", <<>>)

Destroy ==
    /\ CanCall
    /\ calls' = calls + 1
    /\ Do(DestroyCall(World), "destroy", "call", <<>>)

----------------------------------------------------------------------------
(* Microtasks: the head of the queue resumes up to its next await *)

Resuming(op) == mq # <<>> /\ Head(mq).op = op

\* the world once the head of the queue has been taken
Taken == [World EXCEPT !.mq = Tail(@), !.at = Head(mq).at]

ResumeInitialize ==
    /\ Resuming("initialize")
    /\ UNCHANGED calls
    /\ LET pc == Head(mq).pc
           w == Taken
           ready(engine, done) ==
               Seg(Enqueue(EngineReady(w, engine), Task("initialize", done, <<>>)),
                   "pending")
       IN  Do(CASE pc = "stt.ready" -> ready("stt", "stt.done")
                [] pc = "tts.ready" -> ready("tts", "tts.done")
                [] pc = "vad.ready" -> ready("vad", "vad.done")
                [] pc = "stt.done" -> InitializeAfterStt(w)
                [] pc = "tts.done" -> InitializeAfterTts(w)
                [] pc = "vad.done" -> InitializeFinish(w)
                [] pc = "catch" -> InitializeCatch(w),
              "initialize", pc, <<>>)

ResumeStartListening ==
    /\ Resuming("startListening")
    /\ UNCHANGED calls
    /\ LET pc == Head(mq).pc
           w == Taken
       IN  \E p \in (IF pc = "stt" THEN Phrases ELSE PhrasesAtTry) :
              Do(CASE pc = "try" -> StartListeningTry(w, p)
                   [] pc = "stt" -> StartListeningStt(w, p)
                   [] pc = "arm" -> StartListeningArm(w)
                   [] pc = "catch" -> StartListeningCatch(w)
                   [] pc = "throw" -> Seg(w, "throw"),
                 "startListening", pc, <<>>)

\* the rest of a stopListening() that op started
StopListeningRest(w, op, pc, text) ==
    CASE pc = "sl.vad" -> StopListeningVad(w, op, text)
      [] pc = "sl.fin" -> StopListeningFinish(w)

ResumeStopListening ==
    /\ Resuming("stopListening")
    /\ UNCHANGED calls
    /\ LET pc == Head(mq).pc
       IN  Do(Seg(StopListeningRest(Taken, "stopListening", pc, <<>>),
                  IF pc = "sl.fin" THEN "void" ELSE "pending"),
              "stopListening", pc, <<>>)

\* the stopListening() the max-duration callback started and does not await
ResumeMaxDuration ==
    /\ Resuming("maxDuration")
    /\ UNCHANGED calls
    /\ LET pc == Head(mq).pc
       IN  Do(Seg(StopListeningRest(Taken, "maxDuration", pc, <<>>),
                  IF pc = "sl.fin" THEN "void" ELSE "pending"),
              "maxDuration", pc, <<>>)

ResumeSpeakAnalysis ==
    /\ Resuming("speakAnalysis")
    /\ UNCHANGED calls
    /\ LET pc == Head(mq).pc
           text == Head(mq).text
           w == Taken
       IN  Do(CASE pc = "sl.vad" ->
                     Seg(StopListeningVad(w, "speakAnalysis", text), "pending")
                [] pc = "sl.fin" ->
                     Seg(Enqueue(StopListeningFinish(w),
                                 Task("speakAnalysis", "try", text)), "pending")
                [] pc = "try" -> SpeakAnalysisTry(w, text)
                [] pc = "tts.begin" ->
                     Seg(TtsBeginUtterance(w, text, "speakAnalysis"), "pending")
                [] pc = "done" -> SpeakAnalysisDone(w)
                [] pc = "catch" -> SpeakAnalysisCatch(w),
              "speakAnalysis", pc, text)

ResumeStopSpeaking ==
    /\ Resuming("stopSpeaking")
    /\ UNCHANGED calls
    /\ LET pc == Head(mq).pc
       IN  Do(CASE pc = "fin" -> StopSpeakingFinish(Taken)
                [] pc = "throw" -> Seg(Taken, "throw"),
              "stopSpeaking", pc, <<>>)

ResumeDestroy ==
    /\ Resuming("destroy")
    /\ UNCHANGED calls
    /\ LET pc == Head(mq).pc
           w == Taken
           next(x, to) == Seg(Enqueue(x, Task("destroy", to, <<>>)), "pending")
       IN  Do(CASE pc = "stt.off" -> next([w EXCEPT !.stt.initialized = FALSE], "tts")
                [] pc = "tts" -> next(TtsStop(w), "tts.off")
                [] pc = "tts.off" -> next([w EXCEPT !.tts.initialized = FALSE], "vad")
                [] pc = "vad" -> next(VadStop(w), "vad.off")
                [] pc = "vad.off" -> next([w EXCEPT !.vad.initialized = FALSE], "fin")
                [] pc = "fin" -> DestroyFinish(w),
              "destroy", pc, <<>>)

----------------------------------------------------------------------------
(* Timers: with the microtask queue empty, a timer that is due first runs  *)

MinRem ==
    CHOOSE r \in {timers[k].rem : k \in 1..Len(timers)} :
        \A k \in 1..Len(timers) : r <= timers[k].rem

\* timer k is of this kind and no pending timer is due before it
Due(k, kind) ==
    /\ mq = <<>>
    /\ k \in 1..Len(timers)
    /\ timers[k].kind = kind
    /\ timers[k].rem = MinRem

\* the pending timers once timer k has fired: time has advanced to its
\* expiry; a timeout is gone, an interval is armed again
AfterFiring(k) ==
    LET passed == [j \in 1..Len(timers) |-> [timers[j] EXCEPT !.rem = @ - MinRem]]
    IN  IF timers[k].kind = "vad"
        THEN [passed EXCEPT ![k].rem = VadIntervalMs]
        ELSE SubSeq(passed, 1, k - 1) \o SubSeq(passed, k + 1, Len(passed))

Fired(k) == [World EXCEPT !.timers = AfterFiring(k), !.at = timers[k].at]

\* an engine's initialize() timer resolves; its second half is a microtask
FireInit ==
    \E k \in 1..Len(timers) :
        /\ Due(k, "init")
        /\ UNCHANGED calls
        /\ Do(Seg(Enqueue(Fired(k), Task(timers[k].owner, timers[k].tag \o ".ready", <<>>)),
                  "pending"),
              "timer", "init", <<>>)

FireInterim ==
    \E k \in 1..Len(timers) :
        /\ Due(k, "interim")
        /\ UNCHANGED calls
        /\ Do(Seg(SttInterimFired(Fired(k), timers[k]), "void"), "timer", "interim", <<>>)

FireFinal ==
    \E k \in 1..Len(timers) :
        /\ Due(k, "final")
        /\ UNCHANGED calls
        /\ \E confidence \in FinalConfidences :
              Do(Seg(SttFinalFired(Fired(k), timers[k], confidence), "void"),
                 "timer", "final", <<>>)

FireRecordingTimeout ==
    \E k \in 1..Len(timers) :
        /\ Due(k, "maxrec")
        /\ UNCHANGED calls
        /\ Do(Seg(RecordingTimeoutFired(Fired(k)), "void"), "timer", "maxrec", <<>>)

FireProcessingTimeout ==
    \E k \in 1..Len(timers) :
        /\ Due(k, "proc")
        /\ UNCHANGED calls
        /\ Do(Seg(ProcessingTimeoutFired(Fired(k)), "void"), "timer", "proc", <<>>)

\* the utterance timer: finished status, then the promise of speak() resolves
FireTts ==
    \E k \in 1..Len(timers) :
        /\ Due(k, "tts")
        /\ UNCHANGED calls
        /\ LET w == TtsFinished(Fired(k))
           IN  Do(Seg(IF timers[k].owner = "" THEN w
                      ELSE Enqueue(w, Task(timers[k].owner, "done", <<>>)), "void"),
                  "timer", "tts", <<>>)

FireVad ==
    \E k \in 1..Len(timers) :
        /\ Due(k, "vad")
        /\ UNCHANGED calls
        /\ Do(Seg(VadTick(Fired(k), k), "void"), "timer", "vad", <<>>)

----------------------------------------------------------------------------
(* The coordinator and its engines *)

Next ==
    \/ Initialize
    \/ StartListening
    \/ StopListening
    \/ SpeakAnalysis
    \/ StopSpeaking
    \/ Destroy
    \/ ResumeInitialize
    \/ ResumeStartListening
    \/ ResumeStopListening
    \/ ResumeMaxDuration
    \/ ResumeSpeakAnalysis
    \/ ResumeStopSpeaking
    \/ ResumeDestroy
    \/ FireInit
    \/ FireInterim
    \/ FireFinal
    \/ FireRecordingTimeout
    \/ FireProcessingTimeout
    \/ FireTts
    \/ FireVad

Spec == Init /\ [][Next]_vars

\* The event loop keeps running: a queued microtask resumes, and with the
\* queue empty the timer that is due fires (runs); the caller is under no
\* obligation to make another call.  This is weak fairness of runs with its
\* enabling condition written out as busy: something is runnable that is not
\* the detector's interval, a queued microtask or a pending timeout.  Every
\* busy state has a runs step that changes it (the head of the queue is
\* taken, or time advances to the next expiry), so busy implies
\* ENABLED <<runs>>_vars and the condition asks no more than WF_vars(runs).
EventLoopRuns ==
    LET runs ==
            \/ ResumeInitialize
            \/ ResumeStartListening
            \/ ResumeStopListening
            \/ ResumeMaxDuration
            \/ ResumeSpeakAnalysis
            \/ ResumeStopSpeaking
            \/ ResumeDestroy
            \/ FireInit
            \/ FireInterim
            \/ FireFinal
            \/ FireRecordingTimeout
            \/ FireProcessingTimeout
            \/ FireTts
            \/ FireVad
        busy == mq # <<>> \/ \E k \in 1..Len(timers) : timers[k].kind # "vad"
    IN  []<>(~busy) \/ []<><<runs>>_vars

SpecLive == Init /\ [][Next]_vars /\ EventLoopRuns

----------------------------------------------------------------------------
(* WhisperSTT on its own: a caller that initializes the engine, subscribes *)
(* to its transcripts and starts and stops it at any moment.               *)

EngineCanCall == calls < MaxEngineCalls

\* setOnTranscript(callback)
WhisperSetOnTranscript ==
    /\ stt.onTranscript = "none"
    /\ UNCHANGED calls
    /\ Do(Seg([World EXCEPT !.stt.onTranscript = "probe"], "void"),
          "stt.setOnTranscript", "call", <<>>)

\* initialize(config): up to the await of the loading delay
WhisperInitialize ==
    /\ EngineCanCall
    /\ calls' = calls + 1
    /\ Do(Seg(AddTimer(World, [Timer("init", SttInitMs)
                                 EXCEPT !.tag = "stt", !.owner = "stt.initialize"]),
              "pending"),
          "stt.initialize", "call", <<>>)

\* initialize(config): after the delay
WhisperInitialized ==
    /\ Resuming("stt.initialize")
    /\ UNCHANGED calls
    /\ Do(Seg(EngineReady(Taken, "stt"), "true"), "stt.initialize", Head(mq).pc, <<>>)

\* startListening()
WhisperStartListening ==
    /\ EngineCanCall
    /\ calls' = calls + 1
    /\ \E p \in Phrases :
          Do(IF SttStartThrows(World) THEN Seg(World, "throws")
             ELSE Seg(SttStartListening(World, p), "void"),
             "stt.startListening", "call", <<>>)

\* stopListening()
WhisperStopListening ==
    /\ EngineCanCall
    /\ calls' = calls + 1
    /\ Do(Seg(SttStopListening(World), "void"), "stt.stopListening", "call", <<>>)

NextSTT ==
    \/ WhisperSetOnTranscript
    \/ WhisperInitialize
    \/ WhisperInitialized
    \/ WhisperStartListening
    \/ WhisperStopListening
    \/ FireInit
    \/ FireInterim
    \/ FireFinal

SpecSTT == Init /\ [][NextSTT]_vars

----------------------------------------------------------------------------
(* PiperTTS on its own: a caller that initializes the engine, subscribes   *)
(* to its status and calls speak and stop at any moment.                   *)

\* the texts spoken: none, "hello world" (2 words), two words two spaces
\* apart, and texts of 1 to 14 and of 1000 words
EngineTexts ==
    {<<>>, <<"h", "e", "l", "l", "o", " ", "w", "o", "r", "l", "d">>,
     <<"a", " ", " ", "b">>}
    \cup {NWords(n) : n \in 1..14} \cup {NWords(1000)}

\* setOnStatus(callback)
PiperSetOnStatus ==
    /\ tts.onStatus = "none"
    /\ UNCHANGED calls
    /\ Do(Seg([World EXCEPT !.tts.onStatus = "probe"], "void"),
          "tts.setOnStatus", "call", <<>>)

\* initialize(config): up to the await of the loading delay
PiperInitialize ==
    /\ EngineCanCall
    /\ calls' = calls + 1
    /\ Do(Seg(AddTimer(World, [Timer("init", TtsInitMs)
                                 EXCEPT !.tag = "tts", !.owner = "tts.initialize"]),
              "pending"),
          "tts.initialize", "call", <<>>)

\* initialize(config): after the delay
PiperInitialized ==
    /\ Resuming("tts.initialize")
    /\ UNCHANGED calls
    /\ Do(Seg(EngineReady(Taken, "tts"), "true"), "tts.initialize", Head(mq).pc, <<>>)

\* speak(text): from the call to its first await
TtsSpeakCall(w, text) ==
    IF TtsSpeakThrows(w) THEN Seg(w, "throws")
    ELSE IF w.tts.isSpeaking
         THEN Seg(Enqueue(TtsStop(w), Task("tts.speak", "tts.begin", text)), "pending")
         ELSE Seg(TtsBeginUtterance(w, text, "tts.speak"), "pending")

PiperSpeak ==
    /\ EngineCanCall
    /\ calls' = calls + 1
    /\ \E text \in EngineTexts :
          Do(TtsSpeakCall(World, text), "tts.speak", "call", text)

\* speak(text): after "await this.stop()", and when its promise has resolved
PiperSpeakResumes ==
    /\ Resuming("tts.speak")
    /\ UNCHANGED calls
    /\ LET pc == Head(mq).pc
           text == Head(mq).text
       IN  Do(CASE pc = "tts.begin" ->
                     Seg(TtsBeginUtterance(Taken, text, "tts.speak"), "pending")
                [] pc = "done" -> Seg(Taken, "void"),
              "tts.speak", pc, text)

\* stop()
PiperStop ==
    /\ EngineCanCall
    /\ calls' = calls + 1
    /\ Do(Seg(TtsStop(World), "void"), "tts.stop", "call", <<>>)

NextTTS ==
    \/ PiperSetOnStatus
    \/ PiperInitialize
    \/ PiperInitialized
    \/ PiperSpeak
    \/ PiperSpeakResumes
    \/ PiperStop
    \/ FireInit
    \/ FireTts

SpecTTS == Init /\ [][NextTTS]_vars

----------------------------------------------------------------------------
(* VoiceActivityDetector on its own: a caller that initializes the         *)
(* detector, subscribes to it and starts and stops it at any moment.       *)

MaxDetectorCalls == 5

DetectorCanCall == calls < MaxDetectorCalls

\* setOnVAD(callback)
DetectorSetOnVAD ==
    /\ vad.onVAD = "none"
    /\ UNCHANGED calls
    /\ Do(Seg([World EXCEPT !.vad.onVAD = "probe"], "void"),
          "vad.setOnVAD", "call", <<>>)

\* initialize(config): up to the await of the loading delay
DetectorInitialize ==
    /\ DetectorCanCall
    /\ calls' = calls + 1
    /\ Do(Seg(AddTimer(World, [Timer("init", VadInitMs)
                                 EXCEPT !.tag = "vad", !.owner = "vad.initialize"]),
              "pending"),
          "vad.initialize", "call", <<>>)

\* initialize(config): after the delay
DetectorInitialized ==
    /\ Resuming("vad.initialize")
    /\ UNCHANGED calls
    /\ Do(Seg(EngineReady(Taken, "vad"), "true"), "vad.initialize", Head(mq).pc, <<>>)

\* start()
DetectorStart ==
    /\ DetectorCanCall
    /\ calls' = calls + 1
    /\ Do(IF VadStartThrows(World) THEN Seg(World, "throws")
          ELSE Seg(VadStart(World), "void"),
          "vad.start", "call", <<>>)

\* stop()
DetectorStop ==
    /\ DetectorCanCall
    /\ calls' = calls + 1
    /\ Do(Seg(VadStop(World), "void"), "vad.stop", "call", <<>>)

\* triggerSilence()
DetectorTriggerSilence ==
    /\ DetectorCanCall
    /\ calls' = calls + 1
    /\ Do(Seg(VadTriggerSilence(World), "void"), "vad.triggerSilence", "call", <<>>)

NextVAD ==
    \/ DetectorSetOnVAD
    \/ DetectorInitialize
    \/ DetectorInitialized
    \/ DetectorStart
    \/ DetectorStop
    \/ DetectorTriggerSilence
    \/ FireInit
    \/ FireVad

SpecVAD == Init /\ [][NextVAD]_vars

----------------------------------------------------------------------------
(* Command parsing on its own: a transcript is drawn and parsed            *)

Filler == <<"w", "e", "a", "t", "h", "e", "r">>

\* what is said in the k-th place: keyword k of the table, or a word that is
\* no keyword
Said(k) == IF k = 0 THEN Filler ELSE COMMAND_KEYWORDS[k].keyword

PleaseScan == <<"p", "l", "e", "a", "s", "e", " ", "s", "c", "a", "n", " ", "f", "o", "r", " ", "v", "u", "l", "n", "e", "r", "a", "b", "i", "l", "i", "t", "i", "e", "s">>
StopTheScan == <<"s", "t", "o", "p", " ", "t", "h", "e", " ", "s", "c", "a", "n">>
TheWeather == <<"w", "h", "a", "t", "'", "s", " ", "t", "h", "e", " ", "w", "e", "a", "t", "h", "e", "r">>

\* the transcripts parsed: two places, each a keyword or a filler, in lower
\* case, in upper case and capitalized, and three sentences
Transcripts ==
    LET two(a, b) == Said(a) \o <<" ">> \o Said(b)
        places == 0..Len(COMMAND_KEYWORDS)
    IN  {two(a, b) : a \in places, b \in places}
        \cup {ToUpperCase(two(a, b)) : a \in places, b \in places}
        \cup {<<UpperChar(Head(two(a, b)))>> \o Tail(two(a, b)) :
                  a \in places, b \in places}
        \cup {PleaseScan, StopTheScan, TheWeather, ToUpperCase(StopTheScan)}

NotParsed == [keyword |-> <<>>, intent |-> ""]

InitParse ==
    /\ input \in Transcripts
    /\ output = NotParsed
    /\ git = GitInit
    /\ svc = [isInitialized |-> FALSE, currentState |-> "idle", recordingTimeout |-> 0]
    /\ stt = [initialized |-> FALSE, isListening |-> FALSE, onTranscript |-> "none",
              currentTimeout |-> 0, interimTimeout |-> 0]
    /\ tts = [initialized |-> FALSE, isSpeaking |-> FALSE, onStatus |-> "none",
              currentTimeout |-> 0]
    /\ vad = [initialized |-> FALSE, isActive |-> FALSE, onVAD |-> "none",
              simulationInterval |-> 0]
    /\ timers = <<>>
    /\ mq = <<>>
    /\ emitted = <<>>
    /\ act = Act("none", "", "", <<>>)
    /\ calls = 0
    /\ hung = 0
    /\ hist = [finals |-> 0, late |-> FALSE, spoken |-> FALSE, solo |-> "no",
              conf |-> 0, low |-> FALSE, key |-> 0, stale |-> FALSE,
              leaked |-> {}, revived |-> FALSE, stopped |-> "no", destroyed |-> FALSE]

\* the keyword loop of parseAndDispatchCommand applied to the transcript
Parse ==
    /\ output = NotParsed
    /\ output' = ParseCommand(input)
    /\ UNCHANGED <<svc, stt, tts, vad, timers, mq, emitted, act, calls, hung, hist,
                   input, git>>

NextParse == Parse

SpecParse == InitParse /\ [][NextParse]_vars

----------------------------------------------------------------------------
(* Engines whose model loading can fail.  The engines of the repository   *)
(* never reject initialize(); the catch block of VoiceService.initialize  *)
(* is there for engines that do.  Here the promise an engine's            *)
(* initialize() returned rejects when its loading delay has elapsed.      *)

FailInit ==
    \E k \in 1..Len(timers) :
        /\ Due(k, "init")
        /\ timers[k].owner = "initialize"
        /\ UNCHANGED calls
        /\ Do(Seg(Enqueue(Fired(k), Task("initialize", "catch", <<>>)), "pending"),
              "timer", timers[k].tag \o ".failed", <<>>)

NextFault ==
    \/ Next
    \/ FailInit

SpecFault == Init /\ [][NextFault]_vars

----------------------------------------------------------------------------
(* A synthesis engine whose stop() can fail.  PiperTTS.stop() of the       *)
(* repository never rejects; stopSpeaking() awaits it outside any try      *)
(* block, and so does startListening() when the engine is speaking.  Here  *)
(* the promise stop() returned rejects and the engine is left as it was;   *)
(* the await rethrows one microtask later and the call rejects.            *)

FailStopSpeaking ==
    /\ CanCall
    /\ calls' = calls + 1
    /\ Do(Seg(Enqueue(World, Task("stopSpeaking", "throw", <<>>)), "pending"),
          "stopSpeaking", "call", <<>>)

FailStartListening ==
    /\ CanCall
    /\ calls' = calls + 1
    /\ svc.isInitialized
    /\ svc.currentState # "listening"
    /\ tts.isSpeaking
    /\ Do(Seg(Enqueue(World, Task("startListening", "throw", <<>>)), "pending"),
          "startListening", "call", <<>>)

NextStopFault ==
    \/ Next
    \/ FailStopSpeaking
    \/ FailStartListening

SpecStopFault == Init /\ [][NextStopFault]_vars

----------------------------------------------------------------------------
(* A speech engine that recognises phrases the coordinator has no keyword  *)
(* for.  Every phrase of MOCK_TRANSCRIPTS holds a keyword; here the final  *)
(* callback of a session reports another text.                             *)

Heard == {TheWeather, ToUpperCase(StopTheScan)}

HearFinal ==
    \E k \in 1..Len(timers) :
        /\ Due(k, "final")
        /\ UNCHANGED calls
        /\ stt.isListening
        /\ \E text \in Heard, confidence \in FinalConfidences :
              Do(Seg([OnTranscript(Fired(k), text, confidence, TRUE)
                         EXCEPT !.stt.isListening = FALSE], "void"),
                 "timer", "final", <<>>)

NextHeard ==
    \/ Next
    \/ HearFinal

SpecHeard == Init /\ [][NextHeard]_vars

----------------------------------------------------------------------------
(* GitService on its own: callers that call cloneUserRepo() at any moment, *)
(* file-system operations that settle in any order and either way, and     *)
(* the timers of the mock clone and of the analysis.  Each step starts     *)
(* with the events of the step before delivered.                           *)

\* cloneUserRepo(url) is called: three URLs the pattern takes (plain, with
\* ".git", with a final slash) and three it does not (no repository, a
\* third path segment, http)
CloneUserRepo ==
    LET good == <<"h", "t", "t", "p", "s", ":", "/", "/",
                  "g", "i", "t", "h", "u", "b", ".", "c", "o", "m", "/", "a", "/", "b">>
        urls == {good,
                 good \o <<".", "g", "i", "t">>,
                 good \o <<"/">>,
                 SubSeq(good, 1, Len(good) - 2),
                 good \o <<"/", "c">>,
                 SubSeq(good, 1, 4) \o SubSeq(good, 6, Len(good))}
    IN  \E c \in 1..MaxCloneCalls :
            /\ git.pc[c] = "idle"
            /\ \A d \in 1..(c - 1) : git.pc[d] # "idle"
            /\ \E url \in urls :
                  git' = [CloneUserRepoCall([git EXCEPT !.ev = <<>>], c, url)
                             EXCEPT !.last = [op |-> "cloneUserRepo", c |-> c, url |-> url]]
            /\ UNCHANGED <<svc, stt, tts, vad, timers, mq, emitted, act, calls, hung,
                           hist, input, output>>

\* the promise or timer a running call waits for settles
ResumeCloneUserRepo ==
    \E c \in 1..MaxCloneCalls :
        /\ git.pc[c] \notin {"idle", "rejected", "failed", "returned"}
        /\ \E ok \in (IF git.pc[c] \in {"getInfo", "mkRepos", "mkLocal", "write"}
                      THEN BOOLEAN ELSE {TRUE}) :
              git' = [CloneUserRepoResume([git EXCEPT !.ev = <<>>], c, ok)
                         EXCEPT !.last = [op |-> git.pc[c], c |-> c, url |-> <<>>]]
        /\ UNCHANGED <<svc, stt, tts, vad, timers, mq, emitted, act, calls, hung,
                       hist, input, output>>

\* the timer or promise the analysis of a returned repository waits for
ResumeSecurityAnalysis ==
    \E c \in 1..MaxCloneCalls :
        /\ git.an[c] \in {"timer", "info", "read", "sleep"}
        /\ \E ok \in (IF git.an[c] \in {"info", "read"} THEN BOOLEAN ELSE {TRUE}) :
           \E info \in (IF git.an[c] = "info" /\ ok THEN BOOLEAN ELSE {TRUE}) :
              git' = [TriggerSecurityAnalysis([git EXCEPT !.ev = <<>>], c, info, ok)
                         EXCEPT !.last = [op |-> "analysis", c |-> c, url |-> <<>>]]
        /\ UNCHANGED <<svc, stt, tts, vad, timers, mq, emitted, act, calls, hung,
                       hist, input, output>>

NextClone ==
    \/ CloneUserRepo
    \/ ResumeCloneUserRepo
    \/ ResumeSecurityAnalysis

SpecClone == Init /\ [][NextClone]_vars

----------------------------------------------------------------------------
(* Properties *)

Returned(op) == act.op = op /\ act.ret # "pending"

\* C1: every initialize() call that completes returns true with the pipeline
\* state idle, or returns false with the pipeline state error, whichever of
\* the three engine initialization steps failed; it has no other outcome.
C1_InitializeOutcome ==
    Returned("initialize") =>
        \/ act.ret = "true" /\ svc.currentState = "idle"
        \/ act.ret = "false" /\ svc.currentState = "error"

\* C1 witness: initialize() returned false after the third step (the
\* detector) failed
C1_Witness ==
    /\ Returned("initialize")
    /\ act.ret = "false"
    /\ svc.currentState = "error"
    /\ stt.initialized /\ tts.initialized /\ ~vad.initialized

Log(level) == [Event("log") EXCEPT !.a = level]

\* the segment about to end is the synchronous start of a call of op
Calling(op) == act'.op = op /\ act'.pc = "call"

\* a rejected call: nothing of the coordinator, of the engines, of the timers
\* or of the suspended calls changes, and one diagnostic is all it emits
Rejected(level) ==
    /\ svc' = svc /\ stt' = stt /\ tts' = tts /\ vad' = vad
    /\ timers' = timers /\ mq' = mq
    /\ act'.ret = "void"
    /\ emitted' = <<Log(level)>>

Pending(kind) == {k \in 1..Len(timers) : timers[k].kind = kind}

\* C3: in one listening session of the speech engine (from the moment it
\* begins to listen until it is stopped or has delivered its final result) at
\* most one final transcript event is delivered and no interim event follows
\* the final one, whatever phrase was drawn and whatever sessions came before.
C3_InterimThenOneFinal ==
    /\ hist.finals <= 1
    /\ ~hist.late
    /\ \A i \in 1..Len(emitted) :
           (emitted[i].type = "transcript" /\ i < Len(emitted)) => ~IsFinal(emitted[i])
    /\ (\E i \in 1..Len(emitted) : IsFinal(emitted[i])) => ~stt.isListening

\* C3 witness: the final result of the longest phrase was delivered, the one
\* final event of its session
C3_Witness ==
    /\ act.op = "timer" /\ act.pc = "final"
    /\ Len(emitted) = 1
    /\ IsFinal(emitted[1])
    /\ emitted[1].text = MOCK_TRANSCRIPTS[3].text
    /\ hist.finals = 1

\* C4: when the final transcript arrives the state becomes processing and a
\* 500 ms timer is armed; after a startListening() from idle with no other
\* operation invoked, the state stays processing until that timer fires and is
\* idle when it has fired; the timer changes the state only if the state is
\* still processing when it fires.
C4_ProcessingThenIdle ==
    /\ (act.op = "timer" /\ act.pc = "final" /\ emitted # <<>>) =>
            /\ svc.currentState = "processing"
            /\ \E k \in Pending("proc") : timers[k].rem = ProcessingMs
    /\ (hist.solo = "final" /\ Pending("proc") # {}) =>
            /\ svc.currentState = "processing"
            /\ Cardinality(Pending("proc")) = 1
    /\ (hist.solo = "final" /\ Pending("proc") = {}) =>
            /\ svc.currentState = "idle"
            /\ act.op = "timer"
    /\ (act.op = "timer" /\ act.pc = "proc") =>
            IF act.from = "processing"
            THEN svc.currentState = "idle"
            ELSE svc.currentState = act.from /\ emitted = <<>>

\* C4 witness: the 500 ms timer of a session started from idle has fired and
\* returned the state from processing to idle
C4_Witness ==
    /\ act.op = "timer" /\ act.pc = "proc"
    /\ hist.solo = "final"
    /\ act.from = "processing"
    /\ svc.currentState = "idle"

C6_SpeakStopsListening ==
    /\ (act.op = "speakAnalysis" /\ act.at = "listening"
            /\ \E i \in 1..Len(emitted) :
                   emitted[i].type = "state" /\ emitted[i].a = "speaking") =>
            /\ ~stt.isListening
            /\ ~vad.isActive
            /\ svc.recordingTimeout = 0
    /\ hist.spoken =>
            \A i \in 1..Len(emitted) :
                ~IsFinal(emitted[i]) /\ emitted[i].type # "command"

Status(isSpeaking) == [Event("tts") EXCEPT !.f = isSpeaking]

\* the number of space-separated tokens: one more than there are spaces
Tokens(text) == Cardinality({i \in 1..Len(text) : text[i] = " "}) + 1

\* min(5000, max(1000, 400 * wordCount))
ClaimedDelay(text) == Min(5000, Max(1000, 400 * Tokens(text)))

\* C7 as stated: every accepted speak(text) emits the started status during
\* the call and has scheduled the finished status
\* min(5000, max(1000, 400 * wordCount)) ms later.
C7_StartedDuringCall ==
    (act.op = "tts.speak" /\ act.pc = "call" /\ act.ret = "pending"
        /\ tts.onStatus = "probe") =>
        /\ \E i \in 1..Len(emitted) : emitted[i] = Status(TRUE)
        /\ \E k \in Pending("tts") : timers[k].rem = ClaimedDelay(act.text)

\* the utterance of the segment about to end has begun: the engine is
\* speaking and its current timer runs for the claimed delay
Begun ==
    /\ tts'.isSpeaking
    /\ \E k \in 1..Len(timers') :
          /\ timers'[k].kind = "tts"
          /\ timers'[k].id = tts'.currentTimeout
          /\ timers'[k].rem = ClaimedDelay(act'.text)
          /\ timers'[k].rem >= 1000 /\ timers'[k].rem <= 5000
          /\ (act'.text = NWords(2) => timers'[k].rem = 1000)
          /\ (act'.text = NWords(1000) => timers'[k].rem = 5000)

\* C7, amended: speak(text) on an initialized engine that is not speaking
\* emits started during the call; on an engine that is speaking the call emits
\* finished for the utterance it stops, cancels that utterance's timer, and
\* started follows one microtask later; in both cases finished is scheduled
\* min(5000, max(1000, 400 * wordCount)) ms after started, never below 1000 ms
\* and never above 5000 ms, and the timer emits finished when it fires.
C7_SpeakStatusAndDelay ==
    [][tts.onStatus = "probe" =>
        /\ (Calling("tts.speak") /\ tts.initialized) =>
               IF tts.isSpeaking
               THEN /\ emitted' = <<Status(FALSE)>>
                    /\ ~tts'.isSpeaking
                    /\ tts'.currentTimeout = 0
                    /\ \A k \in 1..Len(timers') : timers'[k].id # tts.currentTimeout
               ELSE emitted' = <<Status(TRUE)>> /\ Begun
        /\ (act'.op = "tts.speak" /\ act'.pc = "tts.begin") =>
               emitted' = <<Status(TRUE)>> /\ Begun
        /\ (act'.op = "timer" /\ act'.pc = "tts") =>
               emitted' = <<Status(FALSE)>> /\ ~tts'.isSpeaking]_vars

\* C7 witness: a 1000-word text, spoken while the engine was speaking, has
\* begun one microtask after its call, with the delay at the cap
C7_Witness ==
    /\ act.op = "tts.speak" /\ act.pc = "tts.begin"
    /\ act.text = NWords(1000)
    /\ emitted = <<Status(TRUE)>>
    /\ \E k \in Pending("tts") : timers[k].rem = 5000

\* the table in the order the keywords are tried
KeywordOrder == <<
    [keyword |-> <<"a", "u", "d", "i", "t">>, intent |-> "audit"],
    [keyword |-> <<"s", "c", "a", "n">>, intent |-> "scan"],
    [keyword |-> <<"v", "u", "l", "n", "e", "r", "a", "b", "i", "l", "i", "t", "i", "e", "s">>, intent |-> "scan"],
    [keyword |-> <<"v", "u", "l", "n", "e", "r", "a", "b", "i", "l", "i", "t", "y">>, intent |-> "scan"],
    [keyword |-> <<"e", "x", "p", "l", "a", "i", "n">>, intent |-> "explain"],
    [keyword |-> <<"d", "e", "s", "c", "r", "i", "b", "e">>, intent |-> "explain"],
    [keyword |-> <<"r", "e", "p", "o", "r", "t">>, intent |-> "report"],
    [keyword |-> <<"s", "u", "m", "m", "a", "r", "y">>, intent |-> "report"],
    [keyword |-> <<"s", "t", "o", "p">>, intent |-> "stop"],
    [keyword |-> <<"c", "a", "n", "c", "e", "l">>, intent |-> "stop"],
    [keyword |-> <<"h", "e", "l", "p">>, intent |-> "help"],
    [keyword |-> <<"c", "o", "m", "m", "a", "n", "d", "s">>, intent |-> "help"] >>

\* C8: the parsed command is that of the first keyword, in the table order,
\* that is a substring of the lower-cased transcript, and unknown with an
\* empty keyword when none is; so it is the same for a transcript in any
\* letter case; "please scan for vulnerabilities" and a transcript with both
\* "stop" and "scan" give scan, "what's the weather" gives unknown.
C8_FirstKeywordInTableOrder ==
    output # NotParsed =>
        LET lower == ToLowerCase(input)
            hits == {i \in 1..Len(KeywordOrder) :
                        Includes(lower, KeywordOrder[i].keyword)}
        IN  /\ IF hits = {}
               THEN output = [keyword |-> <<>>, intent |-> "unknown"]
               ELSE output = KeywordOrder[CHOOSE i \in hits : \A j \in hits : i <= j]
            /\ input = PleaseScan => output.intent = "scan"
            /\ lower = StopTheScan => output.intent = "scan"
            /\ input = TheWeather => output.intent = "unknown"

\* C8 witness: a transcript in upper case that holds both "stop" and "scan"
\* was parsed as scan
C8_Witness ==
    /\ input = ToUpperCase(StopTheScan)
    /\ output.intent = "scan"
    /\ output.keyword = KeywordOrder[2].keyword

\* C9: startListening() called on an initialized pipeline in state idle (no
\* operation in flight, none invoked meanwhile) moves the state to listening,
\* and when the call has completed the speech engine is listening, the
\* detector is active, the synthesis engine is not speaking and exactly one
\* max-duration timer is armed.
C9_StartListeningFromIdle ==
    /\ (act.op = "startListening" /\ act.pc = "call" /\ hist.solo = "started") =>
            svc.currentState = "listening"
    /\ (Returned("startListening") /\ hist.solo = "started") =>
            /\ svc.currentState = "listening"
            /\ stt.isListening
            /\ vad.isActive
            /\ ~tts.isSpeaking
            /\ Cardinality(Pending("maxrec")) = 1

\* C10: startListening() or speakAnalysis() called while the pipeline is not
\* initialized is rejected: the pipeline state, the engines' flags, the
\* timers and the suspended calls are unchanged, and the only event emitted is
\* one error diagnostic.
C10_RejectedUninitialized ==
    [][((Calling("startListening") \/ Calling("speakAnalysis"))
            /\ ~svc.isInitialized) => Rejected("error")]_vars

\* C10 witness: a call was rejected after destroy() had completed (the
\* engines' callbacks are wired, the pipeline is not initialized)
C10_Witness ==
    /\ act.op \in {"startListening", "speakAnalysis"}
    /\ act.pc = "call" /\ act.ret = "void"
    /\ ~svc.isInitialized
    /\ stt.onTranscript = "svc"
    /\ emitted = <<Log("error")>>

Steady == {"startListening", "stopListening", "speakAnalysis", "stopSpeaking"}

\* C11: no call of startListening(), stopListening(), speakAnalysis() or
\* stopSpeaking() ends by throwing to its caller, also when an engine method
\* it calls fails; a call that had a failure ends with an error diagnostic.
C11_NoExceptionPropagates ==
    (act.op \in Steady /\ act.ret # "pending") =>
        /\ act.ret = "void"
        /\ act.pc \in {"catch", "throw"} => \E i \in 1..Len(emitted) : emitted[i] = Log("error")

\* C12: the state error is entered only by initialize(); when an engine method
\* has failed during startListening() or speakAnalysis() the pipeline state
\* after the failure was handled is idle.
C12_ErrorOnlyFromInitialize ==
    /\ (\E i \in 1..Len(emitted) :
            emitted[i].type = "state" /\ emitted[i].a = "error") =>
            act.op = "initialize"
    /\ (act.op \in {"startListening", "speakAnalysis"} /\ act.pc = "catch") =>
            svc.currentState = "idle"

\* C13: when initialize() has returned failure, no engine is reported ready by
\* getStatus(), isVoiceReady() is false and a startListening() would be
\* rejected (the pipeline is not initialized), whatever happened before that
\* initialize(), an earlier successful one included.
C13_NoPartialReady ==
    (Returned("initialize") /\ act.ret = "false") =>
        /\ GetStatus(World) = [sttReady |-> FALSE, ttsReady |-> FALSE, vadReady |-> FALSE]
        /\ ~IsVoiceReady(World)
        /\ ~svc.isInitialized

\* C14: the speech engine is never listening while the synthesis engine is
\* speaking, however startListening() and speakAnalysis() calls interleave.
C14_ListeningExcludesSpeaking == ~(stt.isListening /\ tts.isSpeaking)

CommandsIn(ev) == {i \in 1..Len(ev) : ev[i].type = "command"}

\* C15: each final transcript the speech engine delivers gives exactly one
\* command event, with intent unknown when no keyword matches, after the
\* transcript event and the state change to processing, in that order; an
\* interim transcript comes with no command event and no state change.
C15_OneCommandPerFinal ==
    LET finals == {i \in 1..Len(emitted) : IsFinal(emitted[i])}
        interims == {i \in 1..Len(emitted) :
                        emitted[i].type = "transcript" /\ ~emitted[i].f}
    IN  /\ Cardinality(CommandsIn(emitted)) = Cardinality(finals)
        /\ \A i \in finals :
               \E j, k \in 1..Len(emitted) :
                   /\ i < j /\ j < k
                   /\ emitted[j].type = "state" /\ emitted[j].a = "processing"
                   /\ emitted[k].type = "command"
                   /\ emitted[k].n = emitted[i].n
                   /\ (emitted[k].a = "unknown") <=>
                          ~\E m \in 1..Len(KeywordOrder) :
                               Includes(ToLowerCase(emitted[i].text),
                                        KeywordOrder[m].keyword)
        /\ interims # {} =>
               \A i \in 1..Len(emitted) : emitted[i].type = "transcript"

\* C15 witness: a final transcript that holds no keyword was delivered and
\* its command event, intent unknown, is the last event of the delivery
C15_Witness ==
    /\ act.op = "timer" /\ act.pc = "final"
    /\ Len(emitted) = 5
    /\ IsFinal(emitted[1]) /\ emitted[1].text = TheWeather
    /\ emitted[4].type = "state" /\ emitted[4].a = "processing"
    /\ emitted[5].type = "command" /\ emitted[5].a = "unknown"

\* C16: the confidences of the interim transcript events delivered in one
\* listening session of the speech engine never decrease, whatever
\* stopListening() and startListening() calls came before the session.
C16_InterimConfidenceMonotone == ~hist.low

\* C17: WhisperSTT.stopListening() leaves no interim and no final timer of
\* the stopped session pending, and no interim callback scheduled by a stopped
\* session delivers an event in a later session.
C17_StopCancelsAllTimers ==
    /\ (act.op = "stt.stopListening" /\ act.pc = "call") =>
            Pending("interim") = {} /\ Pending("final") = {}
    /\ ~hist.stale

\* C18: WhisperSTT.startListening() called on an engine that is not
\* initialized, or that is already listening, signals an error to its caller,
\* schedules no timer and leaves the listening flag as it was.
C18_StartListeningFails ==
    [][(Calling("stt.startListening") /\ (~stt.initialized \/ stt.isListening)) =>
            /\ act'.ret = "throws"
            /\ timers' = timers
            /\ stt'.isListening = stt.isListening]_vars

\* C19: utterances of the synthesis engine never overlap: at most one
\* utterance timer is pending at any time, it is the current one of an engine
\* that is speaking, and a speak() call on a speaking engine emits finished
\* for the utterance it cancels before started for the new one.
C19_OneUtteranceAtATime ==
    /\ Cardinality(Pending("tts")) <= 1
    /\ \A k \in Pending("tts") :
           tts.isSpeaking /\ timers[k].id = tts.currentTimeout
    /\ (act.op = "tts.speak" /\ act.pc = "tts.begin" /\ tts.onStatus = "probe") =>
           emitted = <<Status(TRUE)>>

\* C20: a step of stopSpeaking() that finds the pipeline state idle,
\* listening, processing or error leaves the state as it was and emits no
\* state-changed event.
C20_StopSpeakingOnlyFromSpeaking ==
    (act.op = "stopSpeaking" /\ act.from # "speaking") =>
        /\ svc.currentState = act.from
        /\ \A i \in 1..Len(emitted) : emitted[i].type # "state"

Detected(isSpeaking) == [Event("vad") EXCEPT !.f = isSpeaking]

\* C21: a detector interval gives its speech-detected callback once, on its
\* first tick, and not at all when stop() came before that tick; no later
\* tick gives a callback, and a callback with false comes only from
\* triggerSilence().
C21_OneShotSpeechDetected ==
    /\ ~hist.revived
    /\ (act.op = "timer" /\ act.pc = "vad") =>
           \A i \in 1..Len(emitted) : emitted[i] = Detected(TRUE)
    /\ (\E i \in 1..Len(emitted) : emitted[i] = Detected(FALSE)) =>
           act.op = "vad.triggerSilence"

\* C22: the detector never has more than one polling interval scheduled, and
\* no interval that outlived a stop() gives a speech-detected callback in a
\* later session.
C22_OneDetectorInterval ==
    /\ Cardinality(Pending("vad")) <= 1
    /\ ~hist.revived

\* C23: when the max-duration timer fires in state listening, the speech
\* engine is stopped at once (no final result of the session is left to
\* come, so no command), the detector is stopped next and the state then
\* becomes idle; when it fires in another state it changes nothing and
\* reports nothing.
C23_MaxDurationStopsListening ==
    /\ (act.op = "timer" /\ act.pc = "maxrec") =>
           IF act.from = "listening"
           THEN /\ ~stt.isListening
                /\ Pending("final") = {}
                /\ emitted = <<Log("warning")>>
                /\ mq # <<>>
           ELSE /\ svc.currentState = act.from
                /\ emitted = <<>>
                /\ mq = <<>>
    /\ (act.op = "maxDuration" /\ act.pc = "sl.vad") =>
           ~vad.isActive /\ ~stt.isListening
    /\ (act.op = "maxDuration" /\ act.pc = "sl.fin" /\ act.from = "listening") =>
           /\ svc.currentState = "idle"
           /\ \A i \in 1..Len(emitted) : emitted[i].type # "command"

\* C23 witness: the stopListening() started by the max-duration timer has
\* completed: engine and detector stopped, state idle
C23_Witness ==
    /\ act.op = "maxDuration" /\ act.pc = "sl.fin"
    /\ act.from = "listening"
    /\ svc.currentState = "idle"
    /\ ~stt.isListening /\ ~vad.isActive

\* C24: at most one max-duration timer is pending at any time, the pending
\* one is the one recordingTimeout names, and a session that has ended by its
\* final transcript leaves no max-duration timer pending.
C24_MaxDurationTimerOfSession ==
    /\ Cardinality(Pending("maxrec")) <= 1
    /\ \A k \in Pending("maxrec") : timers[k].id = svc.recordingTimeout
    /\ hist.solo = "final" => Pending("maxrec") = {}

\* C25: from the completion of a stopListening() call until the next
\* startListening() call is made, the speech engine is not listening and no
\* transcript and no command event is delivered.
C25_QuietAfterStopListening ==
    hist.stopped = "stopped" =>
        /\ ~stt.isListening
        /\ \A i \in 1..Len(emitted) :
               emitted[i].type \notin {"transcript", "command"}

\* C26: when no further public operation is invoked and the event loop keeps
\* running, the pipeline state becomes idle or error and stays there; it
\* does not remain listening, processing or speaking for ever.
C26_EventuallyAtRest == <>[](svc.currentState \in {"idle", "error"})

\* C26 witness: the caller has made its last call and a listening session
\* with its max-duration timer armed is in progress
C26_Witness ==
    /\ calls = MaxCalls
    /\ svc.currentState = "listening"
    /\ stt.isListening
    /\ Pending("maxrec") # {}

\* C27: when destroy() completes the pipeline state is idle and the three
\* engines are not ready and not busy; from then until initialize() is called
\* no transcript, command or synthesis-status event is delivered, and
\* startListening() and speakAnalysis() return at once without effect.
C27_DestroyedIsQuiet ==
    /\ (act.op = "destroy" /\ act.ret = "void") =>
           /\ svc.currentState = "idle"
           /\ ~svc.isInitialized
           /\ ~stt.initialized /\ ~tts.initialized /\ ~vad.initialized
           /\ ~stt.isListening /\ ~tts.isSpeaking /\ ~vad.isActive
    /\ hist.destroyed =>
           /\ \A i \in 1..Len(emitted) :
                  emitted[i].type \notin {"transcript", "command", "tts"}
           /\ (act.op \in {"startListening", "speakAnalysis"} /\ act.pc = "call") =>
                  /\ act.ret = "void"
                  /\ svc.currentState = act.from

\* C28: a final transcript is dispatched (the state becomes processing and a
\* command event is emitted) only by a step that starts in state listening,
\* and whenever the speech engine is listening the pipeline state is
\* listening.
C28_DispatchOnlyWhenListening ==
    /\ (\E i \in 1..Len(emitted) : emitted[i].type = "command") =>
           act.from = "listening"
    /\ (act.op = "timer" /\ act.pc = "final" /\ svc.currentState = "processing") =>
           act.from = "listening"
    /\ stt.isListening => svc.currentState = "listening"

\* C29: every speakAnalysis() call returns to its caller: no call is left
\* awaiting a promise of speak() that can never settle because the timer
\* that would resolve it was cleared, also when a later speakAnalysis(),
\* startListening(), stopSpeaking() or destroy() interrupted the utterance.
C29_SpeakAnalysisReturns == hung = 0

\* the cloneUserRepo calls that passed the guard and have not ended
Cloning(g) ==
    {c \in 1..MaxCloneCalls : g.pc[c] \notin {"idle", "rejected", "failed", "returned"}}

\* C30: at most one cloneUserRepo() runs at a time; a call made while a clone
\* is in progress throws, emits nothing and leaves the running clone and the
\* flag as they were; cloneInProgress is true exactly while a call is
\* running, so it is false again when the call that set it has returned or
\* failed; a call with an invalid GitHub URL made with no clone in progress
\* fails at once with an error progress event.
C30_OneCloneAtATime ==
    [][/\ Cardinality(Cloning(git')) <= 1
       /\ IsCloneInProgress(git') <=> Cloning(git') # {}
       /\ \A c \in 1..MaxCloneCalls :
             (git.pc[c] = "idle" /\ git'.pc[c] # "idle") =>
                /\ IsCloneInProgress(git) =>
                      /\ git'.pc[c] = "rejected"
                      /\ git'.ev = <<>>
                      /\ IsCloneInProgress(git')
                      /\ \A d \in 1..MaxCloneCalls \ {c} :
                            /\ git'.pc[d] = git.pc[d]
                            /\ git'.file[d] = git.file[d]
                /\ ~IsCloneInProgress(git) =>
                      /\ git'.pc[c] # "rejected"
                      /\ ~IsValidGitHubUrl(git'.last.url) =>
                            /\ git'.pc[c] = "failed"
                            /\ git'.ev[Len(git'.ev)] =
                                  [type |-> "progress", a |-> "error", n |-> 0]
                      /\ IsValidGitHubUrl(git'.last.url) => git'.pc[c] = "getInfo"
       /\ \A c \in Cloning(git) :
             git'.pc[c] \in {"returned", "failed"} => ~IsCloneInProgress(git')]_vars

\* C30 witness: a call was rejected while another call is cloning, after an
\* earlier call has ended
C30_Witness ==
    /\ \E c \in 1..MaxCloneCalls : git.pc[c] = "rejected" /\ git.last.c = c
    /\ Cloning(git) # {}
    /\ \E c \in 1..MaxCloneCalls : git.pc[c] \in {"returned", "failed"}

====
